---- MODULE Spec2Model ----
(***************************************************************************)
(* Model of Resources/Scripts/convert_pytorch.py: the checkpoint           *)
(* classifier and materializer (load_pytorch_model), the two format        *)
(* converters (convert_to_coreml, convert_to_mlx), the architecture        *)
(* inferencer (infer_architecture) and the top-level driver (main) with    *)
(* its JSON-line event stream.                                             *)
(*                                                                         *)
(* Conventions.                                                            *)
(*  - Python strings are TLA+ strings; substring tests and lower-casing    *)
(*    are computed character by character.                                 *)
(*  - A progress percent p is held as the integer 10*p (0.1 -> 1, ...,     *)
(*    1.0 -> 10); the code only ever passes the literals 0.1 .. 1.0.       *)
(*  - A Python value is a record with a "kind" field: "none", "tensor",    *)
(*    "other" (any non-tensor leaf such as an int), "dict" (an insertion-  *)
(*    ordered list of key/value items) or "object" (anything else, with    *)
(*    the attributes the script probes: eval, state_dict).                 *)
(*  - Events that the code emits back to back, with no call in between,    *)
(*    are appended by one action.                                          *)
(***************************************************************************)
EXTENDS Integers, Sequences, FiniteSets, TLC

VARIABLES
    args,          \* argparse result: [format, input_shape] (input_shape = the comma-split fields)
    pc,            \* position of the run inside main and its callees
    events,        \* the JSON lines written to stdout so far, in order
    exitCode,      \* process exit status; -1 while the process is running
    exc,           \* message of the exception propagating to main's handler ("" if none)
    interrupted,   \* a KeyboardInterrupt was delivered to the run
    input_shape,   \* main's parsed input_shape tuple
    checkpoint,    \* load_pytorch_model's checkpoint
    model,         \* load_pytorch_model's model
    state_dict,    \* state_dict (load_pytorch_model's, then main's, then convert_to_mlx's)
    traced_model,  \* main's traced_model
    tensors,       \* convert_to_mlx's tensors dict = contents of the safetensors archive
    layer_info,    \* convert_to_mlx's layer_info list / infer_architecture's argument
    archive,       \* what save_file wrote (NoneV until written)
    sidecar,       \* what json.dump wrote next to the archive (NoneV until written)
    metadata,      \* the converter's return value
    input_type,    \* convert_to_coreml's input_type
    calls,         \* library and converter calls made so far, in order
    arch           \* result of a direct infer_architecture call

vars == <<args, pc, events, exitCode, exc, interrupted, input_shape, checkpoint,
          model, state_dict, traced_model, tensors, layer_info, archive, sidecar,
          metadata, input_type, calls, arch>>

-----------------------------------------------------------------------------
(* Python string operations *)

LowerChar(c) ==
    CASE c = "A" -> "a" [] c = "B" -> "b" [] c = "C" -> "c" [] c = "D" -> "d"
      [] c = "E" -> "e" [] c = "F" -> "f" [] c = "G" -> "g" [] c = "H" -> "h"
      [] c = "I" -> "i" [] c = "J" -> "j" [] c = "K" -> "k" [] c = "L" -> "l"
      [] c = "M" -> "m" [] c = "N" -> "n" [] c = "O" -> "o" [] c = "P" -> "p"
      [] c = "Q" -> "q" [] c = "R" -> "r" [] c = "S" -> "s" [] c = "T" -> "t"
      [] c = "U" -> "u" [] c = "V" -> "v" [] c = "W" -> "w" [] c = "X" -> "x"
      [] c = "Y" -> "y" [] c = "Z" -> "z" [] OTHER -> c

RECURSIVE LowerFrom(_, _)
LowerFrom(s, i) ==
    IF i > Len(s) THEN "" ELSE LowerChar(SubSeq(s, i, i)) \o LowerFrom(s, i + 1)

\* str.lower()
Lower(s) == LowerFrom(s, 1)

\* pat in s
Contains(pat, s) ==
    \E i \in 1..(Len(s) - Len(pat) + 1) : SubSeq(s, i, i + Len(pat) - 1) = pat

RECURSIVE JoinFrom(_, _, _)
JoinFrom(sep, xs, i) ==
    IF i > Len(xs) THEN ""
    ELSE IF i = Len(xs) THEN xs[i]
    ELSE xs[i] \o sep \o JoinFrom(sep, xs, i + 1)

\* sep.join(xs)
Join(sep, xs) == JoinFrom(sep, xs, 1)

RECURSIVE SplitFrom(_, _, _, _)
SplitFrom(s, sep, i, cur) ==
    IF i > Len(s) THEN <<cur>>
    ELSE IF SubSeq(s, i, i) = sep THEN <<cur>> \o SplitFrom(s, sep, i + 1, "")
    ELSE SplitFrom(s, sep, i + 1, cur \o SubSeq(s, i, i))

\* s.split(sep) for a one-character sep
Split(s, sep) == SplitFrom(s, sep, 1, "")

Digits == {"0", "1", "2", "3", "4", "5", "6", "7", "8", "9"}

DigitValue(c) ==
    CASE c = "0" -> 0 [] c = "1" -> 1 [] c = "2" -> 2 [] c = "3" -> 3 [] c = "4" -> 4
      [] c = "5" -> 5 [] c = "6" -> 6 [] c = "7" -> 7 [] c = "8" -> 8 [] c = "9" -> 9

\* int(s) succeeds (decimal digits with an optional sign; surrounding blanks,
\* which int() also accepts, do not occur in the inputs)
IsIntLiteral(s) ==
    LET body == IF Len(s) > 0 /\ SubSeq(s, 1, 1) \in {"-", "+"} THEN SubSeq(s, 2, Len(s)) ELSE s
    IN  Len(body) > 0 /\ \A i \in 1..Len(body) : SubSeq(body, i, i) \in Digits

RECURSIVE DigitsValue(_, _)
DigitsValue(s, n) ==
    IF n = 0 THEN 0 ELSE 10 * DigitsValue(s, n - 1) + DigitValue(SubSeq(s, n, n))

\* int(s)
ParseInt(s) ==
    IF SubSeq(s, 1, 1) = "-" THEN 0 - DigitsValue(SubSeq(s, 2, Len(s)), Len(s) - 1)
    ELSE IF SubSeq(s, 1, 1) = "+" THEN DigitsValue(SubSeq(s, 2, Len(s)), Len(s) - 1)
    ELSE DigitsValue(s, Len(s))

-----------------------------------------------------------------------------
(* infer_architecture *)

\* infer_architecture without the lower-casing of the names
InferNoLower(li) ==
    LET layer_names == [i \in 1..Len(li) |-> li[i].name]
        layer_names_str == Join(" ", layer_names)
        LayerConv(n) == Contains("layer", n) /\ Contains("conv", n)
        Down(n) == Contains("downsample", n) \/ Contains("shortcut", n)
        IsConv(n) == Contains("conv", n)
        IsAttn(n) == Contains("attention", n) \/ Contains("transformer", n) \/ Contains("encoder", n)
        IsVit(n) == Contains("vit", n) \/ Contains("patch_embed", n)
        IsMlp(n) == Contains("fc", n) \/ Contains("linear", n) \/ Contains("weight", n) \/ Contains("bias", n)
        IsYolo(n) == Contains("yolo", n) \/ Contains("detect", n)
    IN  IF (Contains("resnet", layer_names_str) \/ (\E i \in 1..Len(layer_names) : LayerConv(layer_names[i])))
            /\ (\E i \in 1..Len(layer_names) : Down(layer_names[i]))
        THEN "ResNet"
        ELSE IF (\E i \in 1..Len(layer_names) : IsConv(layer_names[i])) THEN "CNN"
        ELSE IF (\E i \in 1..Len(layer_names) : IsAttn(layer_names[i])) THEN "Transformer"
        ELSE IF (\E i \in 1..Len(layer_names) : IsVit(layer_names[i])) THEN "Transformer"
        ELSE IF (\A i \in 1..Len(layer_names) : IsMlp(layer_names[i])) THEN "MLP"
        ELSE IF (\E i \in 1..Len(layer_names) : IsYolo(layer_names[i])) THEN "YOLOv8"
        ELSE "Custom"

infer_architecture(li) ==
    LET layer_names == [i \in 1..Len(li) |-> Lower(li[i].name)]
        layer_names_str == Join(" ", layer_names)
        LayerConv(n) == Contains("layer", n) /\ Contains("conv", n)
        Down(n) == Contains("downsample", n) \/ Contains("shortcut", n)
        IsConv(n) == Contains("conv", n)
        IsAttn(n) == Contains("attention", n) \/ Contains("transformer", n) \/ Contains("encoder", n)
        IsVit(n) == Contains("vit", n) \/ Contains("patch_embed", n)
        IsMlp(n) == Contains("fc", n) \/ Contains("linear", n) \/ Contains("weight", n) \/ Contains("bias", n)
        IsYolo(n) == Contains("yolo", n) \/ Contains("detect", n)
    IN  IF (Contains("resnet", layer_names_str) \/ (\E i \in 1..Len(layer_names) : LayerConv(layer_names[i])))
            /\ (\E i \in 1..Len(layer_names) : Down(layer_names[i]))
        THEN "ResNet"
        ELSE IF (\E i \in 1..Len(layer_names) : IsConv(layer_names[i])) THEN "CNN"
        ELSE IF (\E i \in 1..Len(layer_names) : IsAttn(layer_names[i])) THEN "Transformer"
        ELSE IF (\E i \in 1..Len(layer_names) : IsVit(layer_names[i])) THEN "Transformer"
        ELSE IF (\A i \in 1..Len(layer_names) : IsMlp(layer_names[i])) THEN "MLP"
        ELSE IF (\E i \in 1..Len(layer_names) : IsYolo(layer_names[i])) THEN "YOLOv8"
        ELSE "Custom"

-----------------------------------------------------------------------------
(* Python values *)

NoneV == [kind |-> "none"]
Other == [kind |-> "other"]
Tensor(shape, dtype) == [kind |-> "tensor", shape |-> shape, dtype |-> dtype]
Item(k, v) == [key |-> k, val |-> v]
Dict(items) == [kind |-> "dict", items |-> items]
Obj(hasEval, hasStateDict, weights) ==
    [kind |-> "object", hasEval |-> hasEval, hasStateDict |-> hasStateDict, weights |-> weights]

\* isinstance(v, dict), isinstance(v, torch.Tensor), v is None
IsDict(v) == v.kind = "dict"
IsTensor(v) == v.kind = "tensor"
IsNone(v) == v.kind = "none"

\* k in d, d[k], d.get(k) for an insertion-ordered dict
HasKey(d, k) == \E i \in 1..Len(d.items) : d.items[i].key = k
Get(d, k) ==
    IF HasKey(d, k)
    THEN d.items[CHOOSE i \in 1..Len(d.items) : d.items[i].key = k].val
    ELSE NoneV

\* hasattr(v, "state_dict"), hasattr(v, "eval"), v.state_dict()
HasStateDictAttr(v) == v.kind = "object" /\ v.hasStateDict
HasEvalAttr(v) == v.kind = "object" /\ v.hasEval
StateDictOf(v) == Dict(v.weights)

RECURSIVE Prod(_, _)
Prod(shape, i) == IF i > Len(shape) THEN 1 ELSE shape[i] * Prod(shape, i + 1)

\* numel taken as the size of the first dimension
NumelFirstDim(t) == IF Len(t.shape) = 0 THEN 1 ELSE t.shape[1]

\* tensor.numel()
Numel(t) == Prod(t.shape, 1)

\* str(tensor.dtype)
DtypeStr(t) == "torch." \o t.dtype

-----------------------------------------------------------------------------
(* The inputs of a run: command lines and the objects torch.load can return *)

Formats == {"coreml", "mlx"}

\* values of --input-shape
ShapeArgs ==
    { "x", "", "8", "1,8", "1,,8", "1,3,224,224", "1,1,8,8", "1,4,8,8", "1,2,8,8", "1,3,8" }

ConvWeight == Tensor(<<16, 3, 3, 3>>, "float16")
ConvBias == Tensor(<<16>>, "float16")
FcWeight == Tensor(<<2, 2>>, "float32")
HeadBias == Tensor(<<4>>, "bfloat16")
Tracked == Tensor(<<>>, "int64")

SDConv == Dict(<<Item("conv1.weight", ConvWeight), Item("conv1.bias", ConvBias)>>)
SDMixed ==
    Dict(<<Item("fc.weight", FcWeight), Item("epoch", Other),
           Item("bn.num_batches_tracked", Tracked), Item("head.bias", HeadBias)>>)
SDAttn == Dict(<<Item("Encoder.q.weight", FcWeight)>>)
SDEmpty == Dict(<<>>)

Module == Obj(TRUE, TRUE, SDMixed.items)
EvalOnly == Obj(TRUE, FALSE, <<>>)
Opaque == Obj(FALSE, FALSE, <<>>)

Absent == [kind |-> "absent"]
Entry(k, v) == IF v = Absent THEN <<>> ELSE <<Item(k, v)>>

\* a dict checkpoint: each recognised key present or not, plus other entries
DictCheckpoints ==
    { Dict(Entry("model", m) \o Entry("state_dict", s) \o Entry("model_state_dict", ms) \o extra) :
        m \in {Absent, Module, EvalOnly, SDConv, NoneV},
        s \in {Absent, SDConv, SDMixed, NoneV},
        ms \in {Absent, SDAttn, SDEmpty},
        extra \in { <<>>, <<Item("epoch", Other)>>, <<Item("fc.weight", FcWeight)>>,
                    <<Item("conv1.weight", ConvWeight), Item("conv1.bias", ConvBias)>> } }

Checkpoints == DictCheckpoints \cup {Module, EvalOnly, Opaque, ConvWeight}

\* str(e) of what ct.convert or mlmodel.save can raise
CompilerErrors ==
    { "Op 'aten::foo' is Not Supported", "Shape mismatch in matmul",
      "reshape to this shape is not supported", "out of memory" }

Graph(how, m) == [kind |-> "graph", how |-> how, source |-> m]

-----------------------------------------------------------------------------
(* Event Emitter: emit, log, progress, completed, error *)

LogEvent(level, message) == [type |-> "log", level |-> level, message |-> message]
\* progress on a 0..100 scale
ProgressEventPercent(percent, step) ==
    [type |-> "progress", percent |-> percent * 10, step |-> step]


ProgressEvent(percent, step) == [type |-> "progress", percent |-> percent, step |-> step]
CompletedEvent(output_path, format, md) ==
    [type |-> "completed", outputPath |-> output_path, format |-> format, metadata |-> md]
ErrorEvent(message, code) == [type |-> "error", message |-> message, code |-> code]

-----------------------------------------------------------------------------
(* load_pytorch_model: the classifier *)

\* the classifier with 'state_dict' tested before 'model'
ClassifyStateDictFirst(c) ==
    IF IsDict(c) /\ HasKey(c, "state_dict") THEN
        [model |-> NoneV, state_dict |-> Get(c, "state_dict"),
         log |-> <<LogEvent("info", "Found 'state_dict' key (model class required)")>>]
    ELSE IF IsDict(c) /\ HasKey(c, "model") THEN
        [model |-> Get(c, "model"), state_dict |-> NoneV,
         log |-> <<LogEvent("info", "Found 'model' key in checkpoint")>>]
    ELSE IF IsDict(c) /\ HasKey(c, "model_state_dict") THEN
        [model |-> NoneV, state_dict |-> Get(c, "model_state_dict"),
         log |-> <<LogEvent("info", "Found 'model_state_dict' key (model class required)")>>]
    ELSE IF IsDict(c) /\ \A i \in 1..Len(c.items) : IsTensor(c.items[i].val) THEN
        [model |-> NoneV, state_dict |-> c,
         log |-> <<LogEvent("info", "Checkpoint appears to be a state_dict")>>]
    ELSE [model |-> c, state_dict |-> NoneV, log |-> <<>>]

\* the classifier with 'model_state_dict' tested before 'state_dict'
ClassifyModelStateDictFirst(c) ==
    IF IsDict(c) /\ HasKey(c, "model") THEN
        [model |-> Get(c, "model"), state_dict |-> NoneV,
         log |-> <<LogEvent("info", "Found 'model' key in checkpoint")>>]
    ELSE IF IsDict(c) /\ HasKey(c, "model_state_dict") THEN
        [model |-> NoneV, state_dict |-> Get(c, "model_state_dict"),
         log |-> <<LogEvent("info", "Found 'model_state_dict' key (model class required)")>>]
    ELSE IF IsDict(c) /\ HasKey(c, "state_dict") THEN
        [model |-> NoneV, state_dict |-> Get(c, "state_dict"),
         log |-> <<LogEvent("info", "Found 'state_dict' key (model class required)")>>]
    ELSE IF IsDict(c) /\ \A i \in 1..Len(c.items) : IsTensor(c.items[i].val) THEN
        [model |-> NoneV, state_dict |-> c,
         log |-> <<LogEvent("info", "Checkpoint appears to be a state_dict")>>]
    ELSE [model |-> c, state_dict |-> NoneV, log |-> <<>>]


\* the classifier without the all-tensors test: any mapping without a recognised
\* key is taken as a weight mapping
ClassifyAnyMappingIsWeights(c) ==
    IF IsDict(c) /\ HasKey(c, "model") THEN
        [model |-> Get(c, "model"), state_dict |-> NoneV,
         log |-> <<LogEvent("info", "Found 'model' key in checkpoint")>>]
    ELSE IF IsDict(c) /\ HasKey(c, "state_dict") THEN
        [model |-> NoneV, state_dict |-> Get(c, "state_dict"),
         log |-> <<LogEvent("info", "Found 'state_dict' key (model class required)")>>]
    ELSE IF IsDict(c) /\ HasKey(c, "model_state_dict") THEN
        [model |-> NoneV, state_dict |-> Get(c, "model_state_dict"),
         log |-> <<LogEvent("info", "Found 'model_state_dict' key (model class required)")>>]
    ELSE IF IsDict(c) THEN
        [model |-> NoneV, state_dict |-> c,
         log |-> <<LogEvent("info", "Checkpoint appears to be a state_dict")>>]
    ELSE [model |-> c, state_dict |-> NoneV, log |-> <<>>]


Classify(c) ==
    IF IsDict(c) THEN
        IF HasKey(c, "model") THEN
            [model |-> Get(c, "model"), state_dict |-> NoneV,
             log |-> <<LogEvent("info", "Found 'model' key in checkpoint")>>]
        ELSE IF HasKey(c, "state_dict") THEN
            [model |-> NoneV, state_dict |-> Get(c, "state_dict"),
             log |-> <<LogEvent("info", "Found 'state_dict' key (model class required)")>>]
        ELSE IF HasKey(c, "model_state_dict") THEN
            [model |-> NoneV, state_dict |-> Get(c, "model_state_dict"),
             log |-> <<LogEvent("info", "Found 'model_state_dict' key (model class required)")>>]
        ELSE IF \A i \in 1..Len(c.items) : IsTensor(c.items[i].val) THEN
            [model |-> NoneV, state_dict |-> c,
             log |-> <<LogEvent("info", "Checkpoint appears to be a state_dict")>>]
        ELSE [model |-> c, state_dict |-> NoneV, log |-> <<>>]
    ELSE [model |-> c, state_dict |-> NoneV, log |-> <<>>]

-----------------------------------------------------------------------------
(* convert_to_coreml: input descriptor and failure mapping *)

\* the descriptor choice that takes the channel as the only test and 4 channels as RGB
InputTypeByChannelOnly(shape) ==
    IF Len(shape) >= 2 /\ shape[2] \in {1, 3, 4} THEN
        [type |-> "ImageType", color_layout |-> IF shape[2] \in {3, 4} THEN "RGB" ELSE "GRAYSCALE"]
    ELSE [type |-> "TensorType"]


InputType(shape) ==
    IF Len(shape) = 4 THEN
        IF shape[2] \in {1, 3, 4} THEN
            [type |-> "ImageType", color_layout |-> IF shape[2] = 3 THEN "RGB" ELSE "GRAYSCALE"]
        ELSE [type |-> "TensorType"]
    ELSE [type |-> "TensorType"]

InputTypeLog(shape) ==
    IF InputType(shape).type = "ImageType"
    THEN LogEvent("info", "Using ImageType input")
    ELSE LogEvent("info", "Using TensorType input")

\* the failure mapping with the 'shape' test before the 'not supported' test
CoremlFailureShapeFirst(error_msg) ==
    IF Contains("shape", Lower(error_msg)) THEN
        ErrorEvent("Shape mismatch during conversion: " \o error_msg, "SHAPE_MISMATCH")
    ELSE IF Contains("not supported", Lower(error_msg)) THEN
        ErrorEvent("Model contains unsupported operations: " \o error_msg, "UNSUPPORTED_OP")
    ELSE ErrorEvent("CoreML conversion failed: " \o error_msg, "CONVERSION_FAILED")


CoremlFailure(error_msg) ==
    IF Contains("not supported", Lower(error_msg)) THEN
        ErrorEvent("Model contains unsupported operations: " \o error_msg, "UNSUPPORTED_OP")
    ELSE IF Contains("shape", Lower(error_msg)) THEN
        ErrorEvent("Shape mismatch during conversion: " \o error_msg, "SHAPE_MISMATCH")
    ELSE ErrorEvent("CoreML conversion failed: " \o error_msg, "CONVERSION_FAILED")

-----------------------------------------------------------------------------
(* convert_to_mlx: extraction pass, tensor loop, metadata *)

\* the value state_dict gets when convert_to_mlx is entered with None;
\* Absent stands for the INVALID_CHECKPOINT exit
ExtractPass(c) ==
    IF IsDict(c) THEN
        IF HasKey(c, "state_dict") THEN Get(c, "state_dict")
        ELSE IF HasKey(c, "model_state_dict") THEN Get(c, "model_state_dict")
        ELSE IF HasStateDictAttr(Get(c, "model")) THEN StateDictOf(Get(c, "model"))
        ELSE Dict(SelectSeq(c.items, LAMBDA it : IsTensor(it.val)))
    ELSE IF HasStateDictAttr(c) THEN StateDictOf(c)
    ELSE Absent

\* the upcast applied to float16 only
UpcastHalfOnly(t) == IF t.dtype = "float16" THEN [t EXCEPT !.dtype = "float32"] ELSE t


Upcast(t) == IF t.dtype \in {"float16", "bfloat16"} THEN [t EXCEPT !.dtype = "float32"] ELSE t

LayerRecord(key, t) == [name |-> key, shape |-> t.shape, dtype |-> DtypeStr(t)]

\* the loop over state_dict.items(), after its first n items
RECURSIVE TensorLoop(_, _)
TensorLoop(items, n) ==
    IF n = 0 THEN [tensors |-> <<>>, layer_info |-> <<>>]
    ELSE LET prev == TensorLoop(items, n - 1)
             tensor == Upcast(items[n].val)
         IN  IF ~IsTensor(items[n].val) THEN prev
             ELSE [tensors |-> Append(prev.tensors, Item(items[n].key, tensor)),
                   layer_info |-> Append(prev.layer_info, LayerRecord(items[n].key, tensor))]

RECURSIVE SumNumel(_, _)
SumNumel(ts, n) == IF n = 0 THEN 0 ELSE SumNumel(ts, n - 1) + Numel(ts[n].val)

SidecarMetadata(shape, ts, li) ==
    [inputShape |-> shape, format |-> "mlx", layerCount |-> Len(li), layers |-> li,
     architectureType |-> infer_architecture(li), totalParameters |-> SumNumel(ts, Len(ts))]

\* convert_to_mlx returning the sidecar document itself
ReturnedMetadataFull(shape, md, li) == md

ReturnedMetadata(shape, md, li) ==
    [inputShape |-> shape, format |-> "mlx", architectureType |-> md.architectureType,
     layerCount |-> Len(li), totalParameters |-> md.totalParameters]

CoremlMetadata(shape) ==
    [inputShape |-> shape, format |-> "coreml", computeUnits |-> "all",
     deploymentTarget |-> "macOS14"]

-----------------------------------------------------------------------------
(* The run: main and its callees, one action per step *)

Emit(evs) == events' = events \o evs

Init ==
    /\ args \in [format : Formats, input_shape : ShapeArgs, output : {"out/model"}]
    /\ pc = "main"
    /\ events = <<>>
    /\ exitCode = -1
    /\ exc = ""
    /\ interrupted = FALSE
    /\ input_shape = <<>>
    /\ checkpoint = NoneV
    /\ model = NoneV
    /\ state_dict = NoneV
    /\ traced_model = NoneV
    /\ tensors = <<>>
    /\ layer_info = <<>>
    /\ archive = NoneV
    /\ sidecar = NoneV
    /\ metadata = NoneV
    /\ input_type = NoneV
    /\ calls = <<>>
    /\ arch = ""

\* main without the test on the number of dimensions
ParseShapeNoCheck ==
    /\ pc = "main"
    /\ LET fields == Split(args.input_shape, ",")
       IN  IF \A i \in 1..Len(fields) : IsIntLiteral(fields[i]) THEN
               /\ input_shape' = [i \in 1..Len(fields) |-> ParseInt(fields[i])]
               /\ exc' = exc
               /\ Emit(<<LogEvent("info", "Input shape")>>)
               /\ pc' = "load"
           ELSE
               /\ exc' = "invalid literal for int() with base 10"
               /\ pc' = "except"
               /\ UNCHANGED <<input_shape, events>>
    /\ UNCHANGED <<args, exitCode, interrupted, checkpoint, model, state_dict, traced_model,
                   tensors, layer_info, archive, sidecar, metadata, input_type, calls, arch>>

\* main: parse --input-shape, log it, reject fewer than 2 dimensions
ParseShape ==
    /\ pc = "main"
    /\ LET fields == Split(args.input_shape, ",")
       IN  IF \A i \in 1..Len(fields) : IsIntLiteral(fields[i]) THEN
               LET shape == [i \in 1..Len(fields) |-> ParseInt(fields[i])]
               IN  /\ input_shape' = shape
                   /\ exc' = exc
                   /\ IF Len(shape) < 2 THEN
                          /\ Emit(<<LogEvent("info", "Input shape"),
                                    ErrorEvent("Input shape must have at least 2 dimensions",
                                               "INVALID_SHAPE")>>)
                          /\ pc' = "sys_exit"
                      ELSE
                          /\ Emit(<<LogEvent("info", "Input shape")>>)
                          /\ pc' = "load"
           ELSE
               /\ exc' = "invalid literal for int() with base 10"
               /\ pc' = "except"
               /\ UNCHANGED <<input_shape, events>>
    /\ UNCHANGED <<args, exitCode, interrupted, checkpoint, model, state_dict, traced_model,
                   tensors, layer_info, archive, sidecar, metadata, input_type, calls, arch>>

\* load_pytorch_model, up to the torch.load call
LoadStart ==
    /\ pc = "load"
    /\ Emit(<<LogEvent("info", "Loading PyTorch model"), ProgressEvent(1, "Loading model")>>)
    /\ pc' = "torch_load"
    /\ UNCHANGED <<args, exitCode, exc, interrupted, input_shape, checkpoint, model, state_dict,
                   traced_model, tensors, layer_info, archive, sidecar, metadata, input_type,
                   calls, arch>>

\* both torch.load attempts raise
TorchLoadFails ==
    /\ pc = "torch_load"
    /\ calls' = Append(calls, "torch.load")
    /\ exc' = "Failed to load model"
    /\ pc' = "except"
    /\ UNCHANGED <<args, events, exitCode, interrupted, input_shape, checkpoint, model, state_dict,
                   traced_model, tensors, layer_info, archive, sidecar, metadata, input_type, arch>>

\* torch.load returns c; the checkpoint is classified; a weights-only result returns
TorchLoad ==
    /\ pc = "torch_load"
    /\ \E c \in Checkpoints :
        LET k == Classify(c)
            head == <<ProgressEvent(2, "Analyzing checkpoint")>> \o k.log
                    \o <<ProgressEvent(3, "Preparing model")>>
        IN  /\ checkpoint' = c
            /\ model' = k.model
            /\ state_dict' = k.state_dict
            /\ IF IsNone(k.model) /\ ~IsNone(k.state_dict) THEN
                   /\ Emit(head \o <<LogEvent("warning", "Checkpoint contains only weights (state_dict)"),
                                     LogEvent("info", "MLX conversion will proceed with raw weights")>>)
                   /\ pc' = "dispatch"
                   /\ exc' = exc
               ELSE IF ~IsNone(k.model) THEN
                   /\ Emit(head)
                   /\ pc' = "eval"
                   /\ exc' = exc
               ELSE
                   /\ Emit(head)
                   /\ pc' = "except"
                   /\ exc' = "Could not extract model or state_dict from checkpoint"
    /\ calls' = Append(calls, "torch.load")
    /\ UNCHANGED <<args, exitCode, interrupted, input_shape, traced_model, tensors, layer_info,
                   archive, sidecar, metadata, input_type, arch>>

\* model.eval(), then the announcement of tracing
SetEval ==
    /\ pc = "eval"
    /\ calls' = Append(calls, "model.eval")
    /\ IF HasEvalAttr(model) THEN
           /\ Emit(<<LogEvent("info", "Tracing model with input shape"),
                     ProgressEvent(4, "Tracing model")>>)
           /\ pc' = "trace"
           /\ exc' = exc
       ELSE
           /\ exc' = "object has no attribute 'eval'"
           /\ pc' = "except"
           /\ events' = events
    /\ UNCHANGED <<args, exitCode, interrupted, input_shape, checkpoint, model, state_dict,
                   traced_model, tensors, layer_info, archive, sidecar, metadata, input_type, arch>>

\* a failed trace going straight to the weight extraction
TraceSkipsScript ==
    /\ pc = "trace"
    /\ calls' = Append(calls, "torch.jit.trace")
    /\ \E ok \in BOOLEAN :
        IF ok THEN
            /\ traced_model' = Graph("trace", model)
            /\ Emit(<<LogEvent("info", "Model traced successfully")>>)
            /\ pc' = "dispatch"
        ELSE
            /\ traced_model' = traced_model
            /\ Emit(<<LogEvent("warning", "Tracing failed")>>)
            /\ pc' = "extract"
    /\ UNCHANGED <<args, exitCode, exc, interrupted, input_shape, checkpoint, model, state_dict,
                   tensors, layer_info, archive, sidecar, metadata, input_type, arch>>

\* torch.randn + torch.jit.trace
Trace ==
    /\ pc = "trace"
    /\ calls' = Append(calls, "torch.jit.trace")
    /\ \E ok \in BOOLEAN :
        IF ok THEN
            /\ traced_model' = Graph("trace", model)
            /\ Emit(<<LogEvent("info", "Model traced successfully")>>)
            /\ pc' = "dispatch"
        ELSE
            /\ traced_model' = traced_model
            /\ Emit(<<LogEvent("warning", "Tracing failed"),
                      LogEvent("info", "Attempting scripting instead...")>>)
            /\ pc' = "script"
    /\ UNCHANGED <<args, exitCode, exc, interrupted, input_shape, checkpoint, model, state_dict,
                   tensors, layer_info, archive, sidecar, metadata, input_type, arch>>

\* torch.jit.script
Script ==
    /\ pc = "script"
    /\ calls' = Append(calls, "torch.jit.script")
    /\ \E ok \in BOOLEAN :
        IF ok THEN
            /\ traced_model' = Graph("script", model)
            /\ Emit(<<LogEvent("info", "Model scripted successfully")>>)
            /\ pc' = "dispatch"
        ELSE
            /\ traced_model' = traced_model
            /\ Emit(<<LogEvent("warning", "Scripting also failed")>>)
            /\ pc' = "extract"
    /\ UNCHANGED <<args, exitCode, exc, interrupted, input_shape, checkpoint, model, state_dict,
                   tensors, layer_info, archive, sidecar, metadata, input_type, arch>>

\* the fallback returning (None, None, checkpoint) when the model has no state_dict
ExtractWeightsReturnsNothing ==
    /\ pc = "extract"
    /\ IF HasStateDictAttr(model) THEN
           /\ calls' = Append(calls, "model.state_dict")
           /\ state_dict' = StateDictOf(model)
           /\ Emit(<<LogEvent("info", "Extracted state_dict from model")>>)
       ELSE UNCHANGED <<calls, state_dict, events>>
    /\ pc' = "dispatch"
    /\ UNCHANGED <<args, exitCode, exc, interrupted, input_shape, checkpoint, model, traced_model,
                   tensors, layer_info, archive, sidecar, metadata, input_type, arch>>

\* the fallback to model.state_dict()
ExtractWeights ==
    /\ pc = "extract"
    /\ IF HasStateDictAttr(model) THEN
           /\ calls' = Append(calls, "model.state_dict")
           /\ state_dict' = StateDictOf(model)
           /\ Emit(<<LogEvent("info", "Extracted state_dict from model")>>)
           /\ pc' = "dispatch"
           /\ exc' = exc
       ELSE
           /\ exc' = "Cannot process model"
           /\ pc' = "except"
           /\ UNCHANGED <<calls, state_dict, events>>
    /\ UNCHANGED <<args, exitCode, interrupted, input_shape, checkpoint, model, traced_model,
                   tensors, layer_info, archive, sidecar, metadata, input_type, arch>>

\* main without the refusal of a weights-only result for coreml
DispatchNoRefusal ==
    /\ pc = "dispatch"
    /\ calls' = Append(calls, IF args.format = "coreml" THEN "convert_to_coreml" ELSE "convert_to_mlx")
    /\ pc' = IF args.format = "coreml" THEN "coreml" ELSE "mlx"
    /\ UNCHANGED <<args, events, exitCode, exc, interrupted, input_shape, checkpoint, model,
                   state_dict, traced_model, tensors, layer_info, archive, sidecar, metadata,
                   input_type, arch>>

\* main: the choice of converter, and the refusal of a weights-only result for coreml
Dispatch ==
    /\ pc = "dispatch"
    /\ IF args.format = "coreml" THEN
           IF IsNone(traced_model) THEN
               /\ Emit(<<ErrorEvent("CoreML conversion requires a traceable model", "STATE_DICT_ONLY")>>)
               /\ pc' = "sys_exit"
               /\ calls' = calls
           ELSE
               /\ calls' = Append(calls, "convert_to_coreml")
               /\ pc' = "coreml"
               /\ events' = events
       ELSE
           /\ calls' = Append(calls, "convert_to_mlx")
           /\ pc' = "mlx"
           /\ events' = events
    /\ UNCHANGED <<args, exitCode, exc, interrupted, input_shape, checkpoint, model, state_dict,
                   traced_model, tensors, layer_info, archive, sidecar, metadata, input_type, arch>>

\* convert_to_coreml, up to the ct.convert call
CoremlStart ==
    /\ pc = "coreml"
    /\ \E installed \in BOOLEAN :
        IF installed THEN
            /\ input_type' = InputType(input_shape)
            /\ Emit(<<LogEvent("info", "Converting to CoreML format"),
                      ProgressEvent(5, "Converting to CoreML"),
                      InputTypeLog(input_shape),
                      ProgressEvent(6, "Running coremltools conversion")>>)
            /\ pc' = "ct_convert"
        ELSE
            /\ Emit(<<ErrorEvent("coremltools not installed. Run: pip install coremltools",
                                 "MISSING_PACKAGE")>>)
            /\ pc' = "sys_exit"
            /\ input_type' = input_type
    /\ UNCHANGED <<args, exitCode, exc, interrupted, input_shape, checkpoint, model, state_dict,
                   traced_model, tensors, layer_info, archive, sidecar, metadata, calls, arch>>

\* ct.convert returns; author and description are set
CtConvert ==
    /\ pc = "ct_convert"
    /\ calls' = Append(calls, "ct.convert")
    /\ Emit(<<ProgressEvent(8, "Optimizing model"), ProgressEvent(9, "Saving model"),
              LogEvent("info", "Saving CoreML model")>>)
    /\ pc' = "ct_save"
    /\ UNCHANGED <<args, exitCode, exc, interrupted, input_shape, checkpoint, model, state_dict,
                   traced_model, tensors, layer_info, archive, sidecar, metadata, input_type, arch>>

\* ct.convert raises
CtConvertFails ==
    /\ pc = "ct_convert"
    /\ calls' = Append(calls, "ct.convert")
    /\ \E error_msg \in CompilerErrors : Emit(<<CoremlFailure(error_msg)>>)
    /\ pc' = "sys_exit"
    /\ UNCHANGED <<args, exitCode, exc, interrupted, input_shape, checkpoint, model, state_dict,
                   traced_model, tensors, layer_info, archive, sidecar, metadata, input_type, arch>>

\* mlmodel.save returns; convert_to_coreml returns its metadata
CtSave ==
    /\ pc = "ct_save"
    /\ calls' = Append(calls, "mlmodel.save")
    /\ archive' = traced_model
    /\ Emit(<<ProgressEvent(10, "Complete")>>)
    /\ metadata' = CoremlMetadata(input_shape)
    /\ pc' = "completed"
    /\ UNCHANGED <<args, exitCode, exc, interrupted, input_shape, checkpoint, model, state_dict,
                   traced_model, tensors, layer_info, sidecar, input_type, arch>>

\* the failure handler of convert_to_coreml without its sys.exit(1): the
\* function returns None and main goes on to completed()
CtSaveFailsNoExit ==
    /\ pc = "ct_save"
    /\ calls' = Append(calls, "mlmodel.save")
    /\ \E error_msg \in CompilerErrors : Emit(<<CoremlFailure(error_msg)>>)
    /\ pc' = "completed"
    /\ UNCHANGED <<args, exitCode, exc, interrupted, input_shape, checkpoint, model, state_dict,
                   traced_model, tensors, layer_info, archive, sidecar, metadata, input_type, arch>>

\* mlmodel.save raises
CtSaveFails ==
    /\ pc = "ct_save"
    /\ calls' = Append(calls, "mlmodel.save")
    /\ \E error_msg \in CompilerErrors : Emit(<<CoremlFailure(error_msg)>>)
    /\ pc' = "sys_exit"
    /\ UNCHANGED <<args, exitCode, exc, interrupted, input_shape, checkpoint, model, state_dict,
                   traced_model, tensors, layer_info, archive, sidecar, metadata, input_type, arch>>

\* convert_to_mlx, up to the tensor loop
MlxStart ==
    /\ pc = "mlx"
    /\ \E installed \in BOOLEAN :
        IF ~installed THEN
            /\ Emit(<<ErrorEvent("safetensors not installed. Run: pip install safetensors",
                                 "MISSING_PACKAGE")>>)
            /\ pc' = "sys_exit"
            /\ state_dict' = state_dict
        ELSE LET head == <<LogEvent("info", "Converting to MLX safetensors format"),
                           ProgressEvent(5, "Extracting weights")>>
                 sd == IF IsNone(state_dict) THEN ExtractPass(checkpoint) ELSE state_dict
             IN  IF sd = Absent THEN
                     /\ Emit(head \o <<ErrorEvent("Cannot extract state_dict from checkpoint",
                                                  "INVALID_CHECKPOINT")>>)
                     /\ pc' = "sys_exit"
                     /\ state_dict' = state_dict
                 ELSE
                     /\ Emit(head \o <<ProgressEvent(6, "Processing tensors")>>)
                     /\ pc' = "mlx_tensors"
                     /\ state_dict' = sd
    /\ UNCHANGED <<args, exitCode, exc, interrupted, input_shape, checkpoint, model, traced_model,
                   tensors, layer_info, archive, sidecar, metadata, input_type, calls, arch>>

\* the loop over state_dict.items()
MlxTensors ==
    /\ pc = "mlx_tensors"
    /\ IF IsDict(state_dict) THEN
           LET r == TensorLoop(state_dict.items, Len(state_dict.items))
           IN  /\ tensors' = r.tensors
               /\ layer_info' = r.layer_info
               /\ Emit(<<ProgressEvent(8, "Saving safetensors"), LogEvent("info", "Saving MLX model")>>)
               /\ pc' = "save_file"
               /\ exc' = exc
       ELSE
           /\ exc' = "object has no attribute 'items'"
           /\ pc' = "except"
           /\ UNCHANGED <<tensors, layer_info, events>>
    /\ UNCHANGED <<args, exitCode, interrupted, input_shape, checkpoint, model, state_dict,
                   traced_model, archive, sidecar, metadata, input_type, calls, arch>>

\* save_file
SaveFile ==
    /\ pc = "save_file"
    /\ calls' = Append(calls, "save_file")
    /\ \E ok \in BOOLEAN :
        IF ok THEN
            /\ archive' = Dict(tensors)
            /\ Emit(<<ProgressEvent(9, "Saving metadata")>>)
            /\ pc' = "write_sidecar"
            /\ exc' = exc
        ELSE
            /\ exc' = "Error while serializing"
            /\ pc' = "except"
            /\ UNCHANGED <<archive, events>>
    /\ UNCHANGED <<args, exitCode, interrupted, input_shape, checkpoint, model, state_dict,
                   traced_model, tensors, layer_info, sidecar, metadata, input_type, arch>>

\* the sidecar document is built and written; convert_to_mlx returns the reduced metadata
WriteSidecar ==
    /\ pc = "write_sidecar"
    /\ calls' = Append(calls, "json.dump")
    /\ \E ok \in BOOLEAN :
        IF ok THEN
            LET md == SidecarMetadata(input_shape, tensors, layer_info)
            IN  /\ sidecar' = md
                /\ Emit(<<ProgressEvent(10, "Complete")>>)
                /\ metadata' = ReturnedMetadata(input_shape, md, layer_info)
                /\ pc' = "completed"
                /\ exc' = exc
        ELSE
            /\ exc' = "Permission denied"
            /\ pc' = "except"
            /\ UNCHANGED <<sidecar, metadata, events>>
    /\ UNCHANGED <<args, exitCode, interrupted, input_shape, checkpoint, model, state_dict,
                   traced_model, tensors, layer_info, archive, input_type, arch>>

\* main: completed(args.output, args.format, metadata)
Complete ==
    /\ pc = "completed"
    /\ Emit(<<CompletedEvent(args.output, args.format, metadata)>>)
    /\ pc' = "return"
    /\ UNCHANGED <<args, exitCode, exc, interrupted, input_shape, checkpoint, model, state_dict,
                   traced_model, tensors, layer_info, archive, sidecar, metadata, input_type,
                   calls, arch>>

\* main returns and the interpreter exits normally
Return ==
    /\ pc = "return"
    /\ exitCode' = 0
    /\ pc' = "done"
    /\ UNCHANGED <<args, events, exc, interrupted, input_shape, checkpoint, model, state_dict,
                   traced_model, tensors, layer_info, archive, sidecar, metadata, input_type,
                   calls, arch>>

\* SystemExit caught by main's handler, as under "except BaseException"
SysExitCaught ==
    /\ pc \in {"sys_exit", "handler_exit"}
    /\ IF pc = "sys_exit"
       THEN exc' = "1" /\ pc' = "except" /\ exitCode' = exitCode
       ELSE exc' = exc /\ pc' = "done" /\ exitCode' = 1
    /\ UNCHANGED <<args, events, interrupted, input_shape, checkpoint, model, state_dict,
                   traced_model, tensors, layer_info, archive, sidecar, metadata, input_type,
                   calls, arch>>

\* sys.exit(1): SystemExit passes both handlers of main
SysExit ==
    /\ pc \in {"sys_exit", "handler_exit"}
    /\ exitCode' = 1
    /\ pc' = "done"
    /\ UNCHANGED <<args, events, exc, interrupted, input_shape, checkpoint, model, state_dict,
                   traced_model, tensors, layer_info, archive, sidecar, metadata, input_type,
                   calls, arch>>

\* main: except Exception as e
HandleException ==
    /\ pc = "except"
    /\ Emit(<<ErrorEvent(exc, "CONVERSION_FAILED")>>)
    /\ pc' = "handler_exit"
    /\ UNCHANGED <<args, exitCode, exc, interrupted, input_shape, checkpoint, model, state_dict,
                   traced_model, tensors, layer_info, archive, sidecar, metadata, input_type,
                   calls, arch>>

\* the positions inside main's try block, where a KeyboardInterrupt is caught
TryPositions ==
    { "main", "load", "torch_load", "eval", "trace", "script", "extract", "dispatch",
      "coreml", "ct_convert", "ct_save", "mlx", "mlx_tensors", "save_file", "write_sidecar",
      "completed", "return", "sys_exit" }

\* main: except KeyboardInterrupt
Interrupt ==
    /\ pc \in TryPositions
    /\ interrupted' = TRUE
    /\ Emit(<<LogEvent("warning", "Conversion cancelled by user")>>)
    /\ exitCode' = 0
    /\ pc' = "done"
    /\ UNCHANGED <<args, exc, input_shape, checkpoint, model, state_dict, traced_model, tensors,
                   layer_info, archive, sidecar, metadata, input_type, calls, arch>>

\* a KeyboardInterrupt raised while main's "except Exception" clause runs: no
\* handler of main covers it, the traceback goes to stderr and the interpreter
\* ends the process through SIGINT (status 130 in a shell)
InterruptInHandler ==
    /\ pc \in {"except", "handler_exit"}
    /\ interrupted' = TRUE
    /\ exitCode' = 130
    /\ pc' = "done"
    /\ UNCHANGED <<args, events, exc, input_shape, checkpoint, model, state_dict, traced_model,
                   tensors, layer_info, archive, sidecar, metadata, input_type, calls, arch>>

Next ==
    \/ ParseShape
    \/ LoadStart
    \/ TorchLoadFails
    \/ TorchLoad
    \/ SetEval
    \/ Trace
    \/ Script
    \/ ExtractWeights
    \/ Dispatch
    \/ CoremlStart
    \/ CtConvert
    \/ CtConvertFails
    \/ CtSave
    \/ CtSaveFails
    \/ MlxStart
    \/ MlxTensors
    \/ SaveFile
    \/ WriteSidecar
    \/ Complete
    \/ Return
    \/ SysExit
    \/ HandleException
    \/ Interrupt
    \/ InterruptInHandler

Spec == Init /\ [][Next]_vars

-----------------------------------------------------------------------------
(* infer_architecture called directly on bounded lists of tensor records *)

MaxNames == 2

NameVocabulary ==
    { "conv1.weight", "bn1.weight", "attention.q.weight", "encoder.layer.0",
      "fc1.weight", "fc1.bias", "layer1.0.conv1.weight", "layer1.0.downsample.0.weight",
      "ResNet.stem", "shortcut.0", "vit.cls_token", "patch_embed.proj",
      "YOLO.head", "detect.0", "running_mean", "Linear.W" }

Records ==
    { [name |-> n, shape |-> <<2, 2>>, dtype |-> "torch.float32"] : n \in NameVocabulary }
    \cup { [name |-> "conv1.weight", shape |-> <<16>>, dtype |-> "torch.int64"] }

RecordLists == UNION { [1..n -> Records] : n \in 0..MaxNames }

InitInfer ==
    /\ args = [format |-> "mlx", input_shape |-> "", output |-> ""]
    /\ pc = "infer"
    /\ layer_info \in RecordLists
    /\ events = <<>>
    /\ exitCode = -1
    /\ exc = ""
    /\ interrupted = FALSE
    /\ input_shape = <<>>
    /\ checkpoint = NoneV
    /\ model = NoneV
    /\ state_dict = NoneV
    /\ traced_model = NoneV
    /\ tensors = <<>>
    /\ archive = NoneV
    /\ sidecar = NoneV
    /\ metadata = NoneV
    /\ input_type = NoneV
    /\ calls = <<>>
    /\ arch = ""

InferArchitecture ==
    /\ pc = "infer"
    /\ arch' = infer_architecture(layer_info)
    /\ pc' = "inferred"
    /\ UNCHANGED <<args, events, exitCode, exc, interrupted, input_shape, checkpoint, model,
                   state_dict, traced_model, tensors, layer_info, archive, sidecar, metadata,
                   input_type, calls>>

NextInfer == InferArchitecture

SpecInfer == InitInfer /\ [][NextInfer]_vars

-----------------------------------------------------------------------------
(* Observations on the event stream *)

EventsOfType(t) == SelectSeq(events, LAMBDA e : e.type = t)
ProgressEvents == EventsOfType("progress")
ErrorEvents == EventsOfType("error")
CompletedEvents == EventsOfType("completed")
CancelLog == LogEvent("warning", "Conversion cancelled by user")
Called(f) == \E i \in 1..Len(calls) : calls[i] = f
Logged(message) == \E i \in 1..Len(events) : events[i].type = "log" /\ events[i].message = message
Finished == pc = "done"

-----------------------------------------------------------------------------
(* Properties *)

\* C1: in every run the percents of the progress events are non-decreasing and
\* lie in [0.0, 1.0] (0..10 tenths), and the last progress event before a completed
\* event has percent exactly 1.0.
C1_ProgressMonotone ==
    /\ \A i \in 1..Len(ProgressEvents) :
        ProgressEvents[i].percent >= 0 /\ ProgressEvents[i].percent <= 10
    /\ \A i \in 1..(Len(ProgressEvents) - 1) :
        ProgressEvents[i].percent <= ProgressEvents[i + 1].percent
    /\ \A j \in 1..Len(events) :
        events[j].type = "completed" =>
            /\ \E i \in 1..(j - 1) : events[i].type = "progress"
            /\ LET last == CHOOSE i \in 1..(j - 1) :
                               /\ events[i].type = "progress"
                               /\ \A k \in (i + 1)..(j - 1) : events[k].type # "progress"
               IN  events[last].percent = 10

\* a coreml run through tracing has emitted all nine progress values and completed
C1_Witness ==
    /\ Len(CompletedEvents) = 1
    /\ Len(ProgressEvents) = 9
    /\ Called("torch.jit.script")

\* C2 as stated: at most one completed event; only after a converter returned its
\* metadata; never together with an error event; the last event of the run; its
\* format is the requested one.
C2_CompletedIsLastEvent ==
    /\ Len(CompletedEvents) <= 1
    /\ \A j \in 1..Len(events) :
        events[j].type = "completed" =>
            /\ Called("convert_to_coreml") \/ Called("convert_to_mlx")
            /\ metadata # NoneV /\ events[j].metadata = metadata
            /\ Len(ErrorEvents) = 0
            /\ events[j].format = args.format
            /\ j = Len(events)

\* C2, amended: as above, except that the completed event is followed by nothing
\* but the cancellation warning, which follows it only when a KeyboardInterrupt
\* arrives after the event was written and before main returns.
C2_CompletedOnce ==
    /\ Len(CompletedEvents) <= 1
    /\ \A j \in 1..Len(events) :
        events[j].type = "completed" =>
            /\ Called("convert_to_coreml") \/ Called("convert_to_mlx")
            /\ metadata # NoneV /\ events[j].metadata = metadata
            /\ Len(ErrorEvents) = 0
            /\ events[j].format = args.format
            /\ \/ j = Len(events)
               \/ interrupted /\ j = Len(events) - 1 /\ events[Len(events)] = CancelLog

\* an mlx run has ended normally with its completed event
C2_Witness ==
    /\ Finished /\ exitCode = 0 /\ ~interrupted
    /\ args.format = "mlx"
    /\ Len(CompletedEvents) = 1
    /\ events[Len(events)].type = "completed"

\* C3: in a run with no interrupt, a run that ends without a completed event (every
\* fatal outcome) has emitted exactly one error event and exits with status 1, and
\* an error event is never followed by another event.
C3_FatalOutcomes ==
    ~interrupted =>
        /\ Len(ErrorEvents) <= 1
        /\ \A j \in 1..Len(events) : events[j].type = "error" => j = Len(events)
        /\ (Finished /\ Len(CompletedEvents) = 0) => (Len(ErrorEvents) = 1 /\ exitCode = 1)
        /\ (Finished /\ Len(ErrorEvents) = 1) => exitCode = 1
        /\ (Len(input_shape) = 1 /\ Finished) => ErrorEvents[1].code = "INVALID_SHAPE"
        /\ (exc # "" /\ Finished) => ErrorEvents[1].code = "CONVERSION_FAILED"

\* the compiler rejected the graph and the process has exited
C3_Witness ==
    /\ Finished /\ ~interrupted /\ exitCode = 1
    /\ Called("ct.convert")
    /\ Len(ErrorEvents) = 1 /\ ErrorEvents[1].code = "UNSUPPORTED_OP"

\* C4: when the target is coreml and load_pytorch_model returned weights and no graph,
\* convert_to_coreml is never called, no completed event is emitted, no error code
\* other than STATE_DICT_ONLY is reported, and the run, unless cancelled, ends with
\* exactly one error event, of code STATE_DICT_ONLY, and status 1.
C4_StateDictOnly ==
    (args.format = "coreml" /\ ~IsNone(state_dict)) =>
        /\ IsNone(traced_model)
        /\ ~Called("convert_to_coreml")
        /\ Len(CompletedEvents) = 0
        /\ Len(ErrorEvents) <= 1
        /\ \A i \in 1..Len(ErrorEvents) : ErrorEvents[i].code = "STATE_DICT_ONLY"
        /\ (Finished /\ ~interrupted) => (Len(ErrorEvents) = 1 /\ exitCode = 1)

\* tracing and scripting failed, the weights were extracted, and coreml was refused
C4_Witness ==
    /\ args.format = "coreml" /\ Finished /\ ~interrupted
    /\ Called("model.state_dict")
    /\ Len(ErrorEvents) = 1 /\ ErrorEvents[1].code = "STATE_DICT_ONLY"

\* the loaded checkpoint is a mapping that has the key 'model'
HasModelKey == IsDict(checkpoint) /\ HasKey(checkpoint, "model")

\* the classifier's candidate went to the materializer: model.eval() is the next
\* step or was made (or the run was cancelled while waiting for it)
HandedToMaterializer == pc = "eval" \/ Called("model.eval") \/ interrupted

\* C5 as stated: for every mapping checkpoint with the key 'model', the candidate is
\* checkpoint['model'], it is handed to the materializer, and the checkpoint is never
\* classified as a weight mapping.
C5_ModelKeyHandedOver ==
    HasModelKey =>
        /\ model = Get(checkpoint, "model")
        /\ ~Logged("Checkpoint contains only weights (state_dict)")
        /\ HandedToMaterializer

\* C5, amended: the same for every such checkpoint whose 'model' entry is not None;
\* when the entry is None nothing is handed over and the load fails with "Could not
\* extract model or state_dict from checkpoint", whatever other keys are present.
C5_ModelKeyWins ==
    HasModelKey =>
        /\ model = Get(checkpoint, "model")
        /\ ~Logged("Checkpoint contains only weights (state_dict)")
        /\ (~IsNone(state_dict) /\ ~Called("convert_to_mlx")) => Called("model.state_dict")
        /\ IF IsNone(Get(checkpoint, "model"))
           THEN /\ ~Called("model.eval")
                /\ exc = "Could not extract model or state_dict from checkpoint"
           ELSE HandedToMaterializer

\* a checkpoint with 'model' and 'state_dict' has had its model put in inference mode
C5_Witness ==
    /\ HasModelKey /\ HasKey(checkpoint, "state_dict")
    /\ model = Module
    /\ Called("model.eval")

\* the nested value the classifier is to take from a mapping without 'model'
NestedWeights ==
    IF HasKey(checkpoint, "state_dict") THEN Get(checkpoint, "state_dict")
    ELSE Get(checkpoint, "model_state_dict")

AllTensors(d) == IsDict(d) /\ \A i \in 1..Len(d.items) : IsTensor(d.items[i].val)

\* C6: for a mapping checkpoint without 'model' whose 'state_dict' (or, failing that,
\* 'model_state_dict') entry D is a mapping of tensors, load_pytorch_model returns D
\* and no graph, without setting inference mode, tracing or scripting.
C6_NestedWeightsReturned ==
    ( /\ IsDict(checkpoint) /\ ~HasKey(checkpoint, "model")
      /\ HasKey(checkpoint, "state_dict") \/ HasKey(checkpoint, "model_state_dict")
      /\ AllTensors(NestedWeights) ) =>
        /\ state_dict = NestedWeights
        /\ IsNone(model) /\ IsNone(traced_model)
        /\ Logged("MLX conversion will proceed with raw weights")
        /\ ~Called("model.eval") /\ ~Called("torch.jit.trace") /\ ~Called("torch.jit.script")
        /\ \A i \in 1..Len(ProgressEvents) : ProgressEvents[i].step # "Tracing model"

\* both keys are present and load_pytorch_model has just returned the 'state_dict' entry
C6_Witness ==
    /\ pc = "dispatch"
    /\ IsDict(checkpoint) /\ ~HasKey(checkpoint, "model")
    /\ HasKey(checkpoint, "state_dict") /\ HasKey(checkpoint, "model_state_dict")
    /\ state_dict = SDConv
    /\ Get(checkpoint, "model_state_dict") = SDAttn

\* C7: infer_architecture of the empty list is 'Custom'.
C7_EmptyIsCustom ==
    (pc = "inferred" /\ layer_info = <<>>) => arch = "Custom"

\* the names of the argument, lower-cased
LowerNames == [i \in 1..Len(layer_info) |-> Lower(layer_info[i].name)]
SomeName(pats) == \E i \in 1..Len(LowerNames) : \E q \in pats : Contains(q, LowerNames[i])
EveryName(pats) == \A i \in 1..Len(LowerNames) : \E q \in pats : Contains(q, LowerNames[i])

\* the rule list of C8, first match wins
RuleOutcome ==
    IF /\ \/ SomeName({"resnet"})
          \/ \E i \in 1..Len(LowerNames) :
                Contains("layer", LowerNames[i]) /\ Contains("conv", LowerNames[i])
       /\ SomeName({"downsample", "shortcut"})
    THEN "ResNet"
    ELSE IF SomeName({"conv"}) THEN "CNN"
    ELSE IF SomeName({"attention", "transformer", "encoder"}) THEN "Transformer"
    ELSE IF SomeName({"vit", "patch_embed"}) THEN "Transformer"
    ELSE IF EveryName({"fc", "linear", "weight", "bias"}) THEN "MLP"
    ELSE IF SomeName({"yolo", "detect"}) THEN "YOLOv8"
    ELSE "Custom"

NamesAre(names) ==
    Len(layer_info) = Len(names) /\ \A i \in 1..Len(names) : layer_info[i].name = names[i]

\* C8: for every non-empty list, infer_architecture returns the outcome of the first
\* matching rule of the list, on lower-cased names and on the names alone, and the
\* three example lists give CNN, Transformer and MLP.
C8_FirstMatchingRule ==
    (pc = "inferred" /\ Len(layer_info) > 0) =>
        /\ arch = RuleOutcome
        /\ NamesAre(<<"conv1.weight", "bn1.weight">>) => arch = "CNN"
        /\ NamesAre(<<"attention.q.weight", "encoder.layer.0">>) => arch = "Transformer"
        /\ NamesAre(<<"fc1.weight", "fc1.bias">>) => arch = "MLP"

\* an upper-case 'ResNet' name with a shortcut has been classified as ResNet
C8_Witness ==
    /\ pc = "inferred"
    /\ NamesAre(<<"ResNet.stem", "shortcut.0">>)
    /\ arch = "ResNet"

\* the run of the end-to-end scenario: shape 1,3,224,224, format mlx, and the
\* checkpoint an all-tensor mapping of conv1.weight and conv1.bias in float16
Scenario ==
    /\ args.input_shape = "1,3,224,224" /\ args.format = "mlx"
    /\ checkpoint = SDConv

ScenarioOutputs(total) ==
    /\ archive # NoneV =>
        /\ Len(archive.items) = 2
        /\ archive.items[1] = Item("conv1.weight", Tensor(<<16, 3, 3, 3>>, "float32"))
        /\ archive.items[2] = Item("conv1.bias", Tensor(<<16>>, "float32"))
    /\ sidecar # NoneV =>
        /\ sidecar.architectureType = "CNN"
        /\ sidecar.layerCount = 2
        /\ sidecar.totalParameters = total
        /\ sidecar.inputShape = <<1, 3, 224, 224>>
    /\ (sidecar # NoneV /\ Finished /\ ~interrupted) =>
        /\ Len(CompletedEvents) = 1 /\ CompletedEvents[1].format = "mlx"
        /\ Len(ErrorEvents) = 0
        /\ exitCode = 0

\* C9 as stated: the scenario's sidecar has totalParameters 451.
C9_Scenario451 == Scenario => ScenarioOutputs(451)

\* C9, amended: the scenario produces two float32 tensors of unchanged shapes, a
\* sidecar with architectureType CNN, layerCount 2 and totalParameters 448
\* (16*3*3*3 + 16), and exactly one completed event of format mlx and no error.
C9_Scenario448 == Scenario => ScenarioOutputs(448)

\* the scenario has run to its normal end
C9_Witness ==
    /\ Scenario /\ Finished /\ ~interrupted /\ exitCode = 0
    /\ sidecar # NoneV /\ archive # NoneV
    /\ Len(CompletedEvents) = 1

\* the tensor loop of convert_to_mlx has run
TensorLoopDone ==
    \E i \in 1..Len(events) : events[i] = ProgressEvent(8, "Saving safetensors")

ReducedPrecision == {"float16", "bfloat16"}
SourceTensors == SelectSeq(state_dict.items, LAMBDA it : IsTensor(it.val))

\* C10: convert_to_mlx skips non-tensor values, produces one record per tensor value
\* in iteration order, each with the source tensor's shape, and stores float16 and
\* bfloat16 tensors as float32 and every other dtype unchanged, in the archive and in
\* the recorded dtype labels.
C10_TensorRecords ==
    TensorLoopDone =>
        /\ Len(layer_info) = Len(SourceTensors)
        /\ Len(tensors) = Len(SourceTensors)
        /\ \A i \in 1..Len(SourceTensors) :
            LET src == SourceTensors[i]
                stored == IF src.val.dtype \in ReducedPrecision THEN "float32" ELSE src.val.dtype
            IN  /\ layer_info[i].name = src.key
                /\ layer_info[i].shape = src.val.shape
                /\ layer_info[i].dtype = "torch." \o stored
                /\ layer_info[i].dtype \notin {"torch.float16", "torch.bfloat16"}
                /\ tensors[i].key = src.key
                /\ tensors[i].val.shape = src.val.shape
                /\ tensors[i].val.dtype = stored
        /\ archive # NoneV =>
            /\ archive.items = tensors
            /\ \A i \in 1..Len(archive.items) : archive.items[i].val.dtype \notin ReducedPrecision
        /\ sidecar # NoneV => sidecar.layers = layer_info

\* a mapping with a non-tensor entry, a bfloat16 and an int64 tensor has been archived
C10_Witness ==
    /\ TensorLoopDone /\ archive # NoneV
    /\ state_dict = SDMixed
    /\ Len(layer_info) = 3
    /\ layer_info[3] = [name |-> "head.bias", shape |-> <<4>>, dtype |-> "torch.float32"]

RECURSIVE ProductOf(_)
ProductOf(shape) == IF shape = <<>> THEN 1 ELSE Head(shape) * ProductOf(Tail(shape))

RECURSIVE ElementsOf(_)
ElementsOf(items) ==
    IF items = <<>> THEN 0 ELSE ProductOf(Head(items).val.shape) + ElementsOf(Tail(items))

\* C11: in a successful mlx conversion the sidecar's layerCount is the number of
\* retained tensors and the length of its layers list, its totalParameters is the sum
\* of the products of their shapes, and the metadata returned and carried by the
\* completed event has the sidecar's inputShape, format, architectureType, layerCount
\* and totalParameters and no layers list.
C11_SidecarAndMetadata ==
    /\ sidecar # NoneV =>
        /\ archive # NoneV
        /\ sidecar.layerCount = Len(archive.items)
        /\ sidecar.layerCount = Len(sidecar.layers)
        /\ sidecar.totalParameters = ElementsOf(archive.items)
        /\ sidecar.inputShape = input_shape /\ sidecar.format = "mlx"
    /\ (args.format = "mlx" /\ metadata # NoneV) =>
        /\ sidecar # NoneV
        /\ DOMAIN metadata =
             {"inputShape", "format", "architectureType", "layerCount", "totalParameters"}
        /\ metadata.inputShape = sidecar.inputShape
        /\ metadata.format = sidecar.format
        /\ metadata.architectureType = sidecar.architectureType
        /\ metadata.layerCount = sidecar.layerCount
        /\ metadata.totalParameters = sidecar.totalParameters
    /\ \A j \in 1..Len(events) :
        (events[j].type = "completed" /\ args.format = "mlx") => events[j].metadata = metadata

\* an mlx run over a mapping with a skipped entry has completed: 3 layers, 4 + 1 + 4 elements
C11_Witness ==
    /\ args.format = "mlx" /\ Len(CompletedEvents) = 1
    /\ state_dict = SDMixed
    /\ sidecar.layerCount = 3 /\ sidecar.totalParameters = 9
    /\ CompletedEvents[1].metadata.totalParameters = 9

\* C12: at every point of the pipeline where an interrupt is caught, the run ends
\* with status 1 exactly when an error event has been emitted and with status 0
\* otherwise, cancellation adds no error event, and a cancelled run's last event is
\* the warning log 'Conversion cancelled by user'.
C12_ExitStatusMatchesErrors ==
    (Finished /\ exitCode \in {0, 1}) =>
        /\ exitCode = 1 <=> Len(ErrorEvents) > 0
        /\ interrupted => events[Len(events)] = CancelLog

\* --input-shape values of fewer than 2 integers, and values int() rejects
ShortShapes == {"8"}
MalformedShapes == {"x", "", "1,,8"}

\* C13: a shape argument of fewer than 2 integers, or one that does not parse as
\* integers, never leads to a progress event, a load of the checkpoint or a converter
\* call, and the run, unless cancelled, ends with exactly one error event (of code
\* INVALID_SHAPE for the short shape) and status 1.
C13_BadShapeStopsEarly ==
    args.input_shape \in ShortShapes \cup MalformedShapes =>
        /\ pc \in {"main", "sys_exit", "except", "handler_exit", "done"}
        /\ Len(ProgressEvents) = 0 /\ Len(CompletedEvents) = 0
        /\ calls = <<>> /\ checkpoint = NoneV
        /\ (Finished /\ ~interrupted) =>
              /\ Len(ErrorEvents) = 1 /\ exitCode = 1
              /\ events[Len(events)].type = "error"
              /\ args.input_shape \in ShortShapes => ErrorEvents[1].code = "INVALID_SHAPE"

\* the one-dimension shape has been refused and the process has exited
C13_Witness ==
    /\ args.input_shape = "8" /\ Finished /\ ~interrupted
    /\ input_shape = <<8>>
    /\ ErrorEvents[1].code = "INVALID_SHAPE"

\* the text of the exception inside an error event of convert_to_coreml
RaisedBy(e, m) == Contains(m, e.message)

\* the code C14 gives for an exception message, by the first matching test
ExpectedCode(m) ==
    IF Contains("not supported", Lower(m)) THEN "UNSUPPORTED_OP"
    ELSE IF Contains("shape", Lower(m)) THEN "SHAPE_MISMATCH"
    ELSE "CONVERSION_FAILED"

\* C14: when ct.convert or mlmodel.save raises, the error event's code is
\* UNSUPPORTED_OP if the lower-cased message contains 'not supported', else
\* SHAPE_MISMATCH if it contains 'shape', else CONVERSION_FAILED; no completed event
\* is emitted and the run, unless cancelled, ends with exactly that one error event
\* and status 1.
C14_CompilerFailureCodes ==
    (Called("ct.convert") /\ Len(ErrorEvents) > 0) =>
        /\ Len(ErrorEvents) = 1 /\ Len(CompletedEvents) = 0
        /\ \E m \in CompilerErrors :
            /\ RaisedBy(ErrorEvents[1], m)
            /\ ErrorEvents[1].code = ExpectedCode(m)
        /\ RaisedBy(ErrorEvents[1], "Op 'aten::foo' is Not Supported")
              => ErrorEvents[1].code = "UNSUPPORTED_OP"
        /\ RaisedBy(ErrorEvents[1], "reshape to this shape is not supported")
              => ErrorEvents[1].code = "UNSUPPORTED_OP"
        /\ RaisedBy(ErrorEvents[1], "Shape mismatch in matmul")
              => ErrorEvents[1].code = "SHAPE_MISMATCH"
        /\ RaisedBy(ErrorEvents[1], "out of memory") => ErrorEvents[1].code = "CONVERSION_FAILED"
        /\ (Finished /\ ~interrupted) => exitCode = 1

\* mlmodel.save raised a message with both 'shape' and 'not supported'
C14_Witness ==
    /\ Called("mlmodel.save") /\ Finished /\ ~interrupted /\ exitCode = 1
    /\ Len(ErrorEvents) = 1
    /\ RaisedBy(ErrorEvents[1], "reshape to this shape is not supported")
    /\ ErrorEvents[1].code = "UNSUPPORTED_OP"

CallIndex(f) == CHOOSE i \in 1..Len(calls) : calls[i] = f
CallCount(f) == Cardinality({i \in 1..Len(calls) : calls[i] = f})
Warned(message) == \E i \in 1..Len(events) : events[i] = LogEvent("warning", message)

\* C15: the materializer tries trace, script, weight extraction in that order, each
\* only after the previous one failed and after a warning log for that failure, and
\* the first success ends the chain.
C15_FallbackOrder ==
    /\ CallCount("torch.jit.trace") <= 1 /\ CallCount("torch.jit.script") <= 1
    /\ CallCount("model.state_dict") <= 1
    /\ Called("torch.jit.trace") => CallIndex("model.eval") < CallIndex("torch.jit.trace")
    /\ pc = "script" => (Warned("Tracing failed") /\ ~Called("torch.jit.script"))
    /\ Called("torch.jit.script") =>
        /\ Called("torch.jit.trace")
        /\ CallIndex("torch.jit.trace") < CallIndex("torch.jit.script")
        /\ Warned("Tracing failed")
        /\ IsNone(traced_model) \/ traced_model.how = "script"
    /\ pc = "extract" => (Warned("Scripting also failed") /\ ~Called("model.state_dict"))
    /\ Called("model.state_dict") =>
        /\ Called("torch.jit.script")
        /\ CallIndex("torch.jit.script") < CallIndex("model.state_dict")
        /\ Warned("Tracing failed") /\ Warned("Scripting also failed")
        /\ IsNone(traced_model)
    /\ ~IsNone(traced_model) =>
        /\ traced_model.how = "trace" => ~Called("torch.jit.script")
        /\ ~Called("model.state_dict")

\* tracing and scripting failed and the weights were taken from the model
C15_Witness ==
    /\ calls = <<"torch.load", "model.eval", "torch.jit.trace", "torch.jit.script",
                 "model.state_dict">>
    /\ state_dict = StateDictOf(model)
    /\ Warned("Tracing failed") /\ Warned("Scripting also failed")

\* load_pytorch_model raised after the candidate went to the materializer
MaterializerFailed ==
    /\ Called("model.eval") /\ exc # "" /\ ~interrupted
    /\ ~Called("convert_to_coreml") /\ ~Called("convert_to_mlx")

\* C16: the materializer fails only after tracing, scripting and weight extraction
\* have each been attempted and failed; a failure of setting inference mode, of
\* tracing or of scripting alone is never the run's final error.
C16_FailsOnlyByExhaustion ==
    MaterializerFailed =>
        /\ Called("torch.jit.trace") /\ Called("torch.jit.script")
        /\ exc = "Cannot process model"

\* C17: when the target is mlx and the materializer, run on the candidate of a
\* mapping checkpoint, obtained neither a graph nor a weight mapping, the run still
\* calls convert_to_mlx and does not end in an error before its extraction pass.
C17_MlxExtractionStillRuns ==
    ( /\ args.format = "mlx" /\ IsDict(checkpoint) /\ Called("model.eval")
      /\ IsNone(traced_model) /\ IsNone(state_dict)
      /\ Finished /\ ~interrupted ) => Called("convert_to_mlx")

\* C18: for a checkpoint with both 'model' and 'state_dict', the weights archived by
\* convert_to_mlx after its extraction pass are those of checkpoint['model'], the
\* object the classifier selected.
C18_ExtractionFollowsClassifier ==
    ( /\ args.format = "mlx" /\ archive # NoneV
      /\ IsDict(checkpoint) /\ HasKey(checkpoint, "model") /\ HasKey(checkpoint, "state_dict")
      /\ HasStateDictAttr(Get(checkpoint, "model")) ) =>
        state_dict = StateDictOf(Get(checkpoint, "model"))

\* the loaded checkpoint has none of the keys 'model', 'state_dict', 'model_state_dict'
NoRecognisedKey ==
    /\ checkpoint # NoneV
    /\ IsDict(checkpoint) =>
        /\ ~HasKey(checkpoint, "model") /\ ~HasKey(checkpoint, "state_dict")
        /\ ~HasKey(checkpoint, "model_state_dict")

\* C19: without a recognised key, an all-tensor mapping (the empty one included) is
\* the weight mapping as a whole, a mapping with a non-tensor value is the
\* runnable-model candidate as a whole, and a non-mapping object is the candidate.
C19_UnkeyedCheckpoints ==
    NoRecognisedKey =>
        IF IsDict(checkpoint) /\ \A i \in 1..Len(checkpoint.items) : checkpoint.items[i].val.kind = "tensor"
        THEN /\ state_dict = checkpoint /\ IsNone(model) /\ IsNone(traced_model)
             /\ ~Called("model.eval")
             /\ Logged("MLX conversion will proceed with raw weights")
        ELSE /\ model = checkpoint
             /\ ~Logged("Checkpoint contains only weights (state_dict)")
             /\ HandedToMaterializer

\* the empty mapping has been returned as the weight mapping
C19_Witness ==
    /\ checkpoint = Dict(<<>>) /\ pc = "dispatch"
    /\ state_dict = Dict(<<>>) /\ IsNone(model)

\* C20: when load_pytorch_model returns, exactly one of the graph and the weight
\* mapping is set, the graph being a traced or scripted model; when it raises,
\* neither was returned.
C20_ExactlyOneResult ==
    /\ pc \in {"dispatch", "coreml", "mlx"} =>
        /\ IsNone(traced_model) # IsNone(state_dict)
        /\ ~IsNone(traced_model) =>
              (traced_model.kind = "graph" /\ traced_model.how \in {"trace", "script"})
    /\ (IsNone(traced_model) /\ IsNone(state_dict) /\ checkpoint # NoneV /\ ~interrupted) =>
        /\ pc \in {"eval", "trace", "script", "extract", "except", "handler_exit", "done"}
        /\ Finished => (exc # "" /\ Len(CompletedEvents) = 0)
        /\ ~Called("convert_to_coreml") /\ ~Called("convert_to_mlx")

\* a scripted graph has been returned after tracing failed
C20_Witness ==
    /\ pc = "dispatch"
    /\ ~IsNone(traced_model) /\ traced_model.how = "script"
    /\ IsNone(state_dict)

\* the shape convert_to_coreml received is an image shape (B, C, H, W) with C in 1, 3, 4
ImageShape == Len(input_shape) = 4 /\ input_shape[2] \in {1, 3, 4}

\* C21: convert_to_coreml selects an image descriptor exactly when the input shape
\* has 4 dimensions and its second dimension is 1, 3 or 4, and a tensor descriptor
\* for every other shape; the image layout is RGB for 3 channels and grayscale for
\* 1 or 4; the log event names the selected descriptor.
C21_InputDescriptor ==
    /\ pc \in {"ct_convert", "ct_save"} => input_type # NoneV
    /\ input_type # NoneV =>
        /\ input_type.type \in {"ImageType", "TensorType"}
        /\ input_type.type = "ImageType" <=> ImageShape
        /\ input_type.type = "ImageType" =>
            /\ input_shape[2] = 3 => input_type.color_layout = "RGB"
            /\ input_shape[2] \in {1, 4} => input_type.color_layout = "GRAYSCALE"
        /\ Logged("Using ImageType input") <=> ImageShape
        /\ Logged("Using TensorType input") <=> ~ImageShape

\* a 4-channel image shape got the grayscale image descriptor
C21_Witness ==
    /\ input_shape = <<1, 4, 8, 8>>
    /\ input_type # NoneV /\ input_type.type = "ImageType"
    /\ input_type.color_layout = "GRAYSCALE"
    /\ Called("ct.convert")

====
